---- MODULE Spec2Model ----
(***************************************************************************)
(* HistoryBuffer<T> (src/src/lib.rs): a write-only ring buffer of fixed    *)
(* depth.  The struct is a record with the fields of the source; every     *)
(* method is an operator on that record, and every call of a method is an  *)
(* action.  Rust indexes from 0 and TLA+ sequences from 1: buffer[i] of    *)
(* the source is self.buffer[i + 1] here.                                  *)
(***************************************************************************)
EXTENDS Integers, Sequences, FiniteSets, TLC

\* ------------------------------------------------------------------ bounds
\* Largest max_size passed to new(); 0 (the degenerate buffer) is included.
MaxCap == 3
\* Largest number of writes between two clears.
MaxWrites == 5
\* The monotonic clock (time::Instant) runs from 0 to MaxTime.
MaxTime == 2
\* The values of type T that are written.
Values == {"A", "B"}

\* ------------------------------------------------------------ Rust helpers
\* Option<T>: None is the empty sequence, Some(x) the one-element sequence.
None == <<>>
Some(x) == <<x>>

NoPanic == "none"
IndexOutOfBounds == "index out of bounds"
RemainderByZero == "remainder by zero"

\* usize arithmetic wraps at the width of the type.  TLC's integers are 32
\* bits wide, so the width is reduced to 30 bits; write_index never comes
\* near either width, because it is reduced modulo max_size after every add.
UsizeModulus == 2 ^ 30
wrapping_add(a, b) == (a + b) % UsizeModulus

\* Instant::duration_since saturates at zero.
duration_since(later, earlier) == IF later >= earlier THEN later - earlier ELSE 0

Min(a, b) == IF a <= b THEN a ELSE b
Reverse(s) == [i \in 1..Len(s) |-> s[Len(s) + 1 - i]]
\* The last k elements of s.
LastK(s, k) == SubSeq(s, Len(s) - k + 1, Len(s))

\* ------------------------------------------------------- HistoryBuffer<T>
new(max_size, t) ==
    [max_size |-> max_size, write_index |-> 0, buffer |-> <<>>, last_data_at |-> t]

is_empty(self) == Len(self.buffer) = 0

is_full_off_by_one(self) == Len(self.buffer) + 1 = self.max_size
is_full(self) == Len(self.buffer) = self.max_size

max_len_is_len(self) == Len(self.buffer)
max_len(self) == self.max_size

len(self) == Len(self.buffer)

clear_keeps_index(self) == [self EXCEPT !.buffer = <<>>]
clear_resets_timer(self) ==
    [self EXCEPT !.write_index = 0, !.buffer = <<>>, !.last_data_at = 0]
clear_keeps_buffer(self) == [self EXCEPT !.write_index = 0]
clear(self) == [self EXCEPT !.write_index = 0, !.buffer = <<>>]

\* The result of a call that can panic: the value returned and the panic.
most_recent_no_wrap(self) ==
    IF is_empty(self) THEN [r |-> None, panic |-> NoPanic]
    ELSE IF self.write_index = 0
         THEN [r |-> Some(self.buffer[1]), panic |-> NoPanic]
         ELSE IF self.write_index - 1 < Len(self.buffer)
              THEN [r |-> Some(self.buffer[self.write_index]), panic |-> NoPanic]
              ELSE [r |-> None, panic |-> IndexOutOfBounds]
most_recent(self) ==
    IF is_empty(self) THEN [r |-> None, panic |-> NoPanic]
    ELSE IF self.write_index = 0
         THEN [r |-> Some(self.buffer[Len(self.buffer)]), panic |-> NoPanic]
         ELSE IF self.write_index - 1 < Len(self.buffer)
              THEN [r |-> Some(self.buffer[self.write_index]), panic |-> NoPanic]
              ELSE [r |-> None, panic |-> IndexOutOfBounds]

\* write at time t: the buffer after the call, the value returned, the panic.
\* A panic leaves the fields assigned before it as they are.
write_body(self, val, t, slot, next_index, stamp) ==
    LET full == is_full(self)
        oob == full /\ ~(slot < Len(self.buffer))
        buf == IF full THEN [self.buffer EXCEPT ![slot + 1] = val]
                       ELSE Append(self.buffer, val)
    IN  IF oob THEN [self |-> self, r |-> None, panic |-> IndexOutOfBounds]
        ELSE IF self.max_size = 0
             THEN [self |-> [self EXCEPT !.buffer = buf], r |-> None,
                   panic |-> RemainderByZero]
             ELSE [self |-> [self EXCEPT !.buffer = buf,
                                         !.write_index = next_index,
                                         !.last_data_at = stamp],
                   r |-> IF full THEN Some(self.buffer[slot + 1]) ELSE None,
                   panic |-> NoPanic]

write_slot_zero(self, val, t) ==
    write_body(self, val, t, 0,
               wrapping_add(self.write_index, 1) % self.max_size, t)
write_no_modulo(self, val, t) ==
    write_body(self, val, t, self.write_index,
               wrapping_add(self.write_index, 1), t)
write_wraps_late(self, val, t) ==
    write_body(self, val, t, self.write_index,
               wrapping_add(self.write_index, 1) % (self.max_size + 1), t)
write_no_stamp(self, val, t) ==
    write_body(self, val, t, self.write_index,
               wrapping_add(self.write_index, 1) % self.max_size,
               self.last_data_at)
write_returns_new(self, val, t) ==
    LET w == write_body(self, val, t, self.write_index,
                        wrapping_add(self.write_index, 1) % self.max_size, t)
    IN  [w EXCEPT !.r = IF w.r = None THEN None ELSE Some(val)]
write_noop_on_zero(self, val, t) ==
    IF self.max_size = 0
    THEN [self |-> self, r |-> Some(val), panic |-> NoPanic]
    ELSE write_body(self, val, t, self.write_index,
                    wrapping_add(self.write_index, 1) % self.max_size, t)
write(self, val, t) ==
    write_body(self, val, t, self.write_index,
               wrapping_add(self.write_index, 1) % self.max_size, t)

duration_ignores_empty(self, t) == Some(duration_since(t, self.last_data_at))
duration_since_last_measurement(self, t) ==
    IF ~is_empty(self) THEN Some(duration_since(t, self.last_data_at)) ELSE None

all_unsorted_rotated(self) ==
    SubSeq(self.buffer, self.write_index + 1, Len(self.buffer))
        \o SubSeq(self.buffer, 1, self.write_index)
all_unsorted(self) == self.buffer

\* all(): the chain of the two slice iterators, each the part of its slice
\* not yet yielded; slicing panics when write_index is past the end.
NoIter == [live |-> FALSE, a |-> <<>>, b |-> <<>>]
all_physical_order(self) ==
    IF self.write_index > Len(self.buffer)
    THEN [it |-> NoIter, panic |-> IndexOutOfBounds]
    ELSE [it |-> [live |-> TRUE,
                  a |-> SubSeq(self.buffer, 1, self.write_index),
                  b |-> SubSeq(self.buffer, self.write_index + 1, Len(self.buffer))],
          panic |-> NoPanic]
all_drops_wrapped(self) ==
    IF self.write_index > Len(self.buffer)
    THEN [it |-> NoIter, panic |-> IndexOutOfBounds]
    ELSE [it |-> [live |-> TRUE,
                  a |-> SubSeq(self.buffer, self.write_index + 1, Len(self.buffer)),
                  b |-> <<>>],
          panic |-> NoPanic]
all(self) ==
    IF self.write_index > Len(self.buffer)
    THEN [it |-> NoIter, panic |-> IndexOutOfBounds]
    ELSE [it |-> [live |-> TRUE,
                  a |-> SubSeq(self.buffer, self.write_index + 1, Len(self.buffer)),
                  b |-> SubSeq(self.buffer, 1, self.write_index)],
          panic |-> NoPanic]

\* Chain::next: the first iterator until it is exhausted, then the second.
next(it) ==
    IF it.a # <<>> THEN [it |-> [it EXCEPT !.a = Tail(@)], r |-> Some(Head(it.a))]
    ELSE IF it.b # <<>> THEN [it |-> [it EXCEPT !.b = Tail(@)], r |-> Some(Head(it.b))]
    ELSE [it |-> it, r |-> None]

\* Chain::next_back: the second iterator from its back, then the first.
next_back(it) ==
    IF it.b # <<>>
    THEN [it |-> [it EXCEPT !.b = SubSeq(@, 1, Len(@) - 1)], r |-> Some(it.b[Len(it.b)])]
    ELSE IF it.a # <<>>
    THEN [it |-> [it EXCEPT !.a = SubSeq(@, 1, Len(@) - 1)], r |-> Some(it.a[Len(it.a)])]
    ELSE [it |-> it, r |-> None]

\* An iterator run to its end from the front, and from the back.
RECURSIVE collect(_)
collect(it) ==
    LET n == next(it) IN IF n.r = None THEN <<>> ELSE n.r \o collect(n.it)

RECURSIVE collect_back(_)
collect_back(it) ==
    LET n == next_back(it) IN IF n.r = None THEN <<>> ELSE n.r \o collect_back(n.it)

\* fmt::Debug: the entries of all(), in the order all() yields them.
fmt(self) ==
    LET v == all(self)
    IN  [r |-> IF v.panic = NoPanic THEN collect(v.it) ELSE <<>>, panic |-> v.panic]

\* ------------------------------------------------------------------ state
VARIABLES
    hb,           \* the HistoryBuffer
    now,          \* the reading of the monotonic clock
    op,           \* the last call made
    r,            \* what the last call returned
    panic,        \* the panic the last call ended in, or NoPanic
    iter,         \* the iterator all() returned, while it is alive
    front,        \* what iter has yielded from the front
    back,         \* what iter has yielded from the back
    written,      \* history: the values written since new() or the last clear()
    last_write,   \* history: the clock reading of the latest write, if any
    cleared,      \* history: clear() has been called
    fresh,        \* a buffer made by new() at the last clear(), given the same writes
    fresh_res,    \* what the last write on fresh returned
    capacity,     \* history: the max_size given to new()
    epoch_write,  \* history: the clock reading of the latest write since the last clear()
    tok,          \* the same calls on a HistoryBuffer of tokens: write number n
                  \* since the last clear() writes the token n
    issued,       \* history: the number of tokens written in the epoch accounted for
    returned,     \* history: the tokens those writes handed back, in order
    released      \* history: the tokens a clear() dropped

\* The history of who owns which token.
own == <<tok, issued, returned, released>>

vars == <<hb, now, op, r, panic, iter, front, back, written, last_write,
          cleared, fresh, fresh_res, capacity, epoch_write, own>>

Init ==
    /\ capacity \in 0..MaxCap
    /\ hb = new(capacity, 0)
    /\ now = 0
    /\ op = "new"
    /\ r = None
    /\ panic = NoPanic
    /\ iter = NoIter
    /\ front = <<>>
    /\ back = <<>>
    /\ written = <<>>
    /\ last_write = None
    /\ cleared = FALSE
    /\ fresh = hb
    /\ fresh_res = [r |-> None, panic |-> NoPanic]
    /\ epoch_write = None
    /\ tok = hb
    /\ issued = 0
    /\ returned = <<>>
    /\ released = <<>>

\* The clock advances between calls.
Tick ==
    /\ now < MaxTime
    /\ now' = now + 1
    /\ UNCHANGED <<hb, op, r, panic, iter, front, back, written, last_write,
                   cleared, fresh, fresh_res, capacity, epoch_write, own>>

\* A call that only reads the buffer and returns res.  The reads commute
\* with the steps of a live iterator (neither changes what the other reads),
\* so they are taken only while no iterator is alive.
Read(name, res, p) ==
    /\ ~iter.live
    /\ op' = name
    /\ r' = res
    /\ panic' = p
    /\ UNCHANGED <<hb, now, iter, front, back, written, last_write, cleared,
                   fresh, fresh_res, capacity, epoch_write, own>>

IsEmpty == Read("is_empty", is_empty(hb), NoPanic)
IsFull == Read("is_full", is_full(hb), NoPanic)
MaxLen == Read("max_len", max_len(hb), NoPanic)
LenOf == Read("len", len(hb), NoPanic)
MostRecent == Read("most_recent", most_recent(hb).r, most_recent(hb).panic)
DurationSinceLastMeasurement ==
    Read("duration_since_last_measurement",
         duration_since_last_measurement(hb, now), NoPanic)
AllUnsorted == Read("all_unsorted", all_unsorted(hb), NoPanic)
Fmt == Read("fmt", fmt(hb).r, fmt(hb).panic)

\* write and clear borrow the buffer mutably: no iterator is alive.
Write(val) ==
    LET w == write(hb, val, now)
        f == write(fresh, val, now)
        \* The first write after new() or clear() opens a new epoch of tokens.
        first == Len(written) = 0
        k == write(tok, (IF first THEN 0 ELSE issued) + 1, now)
    IN  /\ ~iter.live
        /\ Len(written) < MaxWrites
        /\ hb' = w.self
        /\ op' = "write"
        /\ r' = w.r
        /\ panic' = w.panic
        /\ written' = IF w.panic = NoPanic THEN Append(written, val) ELSE written
        /\ last_write' = IF w.panic = NoPanic THEN Some(now) ELSE last_write
        /\ fresh' = IF cleared THEN f.self ELSE fresh
        /\ fresh_res' = IF cleared THEN [r |-> f.r, panic |-> f.panic] ELSE fresh_res
        /\ epoch_write' = IF w.panic = NoPanic THEN Some(now) ELSE epoch_write
        /\ tok' = k.self
        /\ issued' = IF k.panic # NoPanic THEN issued
                      ELSE (IF first THEN 0 ELSE issued) + 1
        /\ returned' = IF k.panic # NoPanic THEN returned
                        ELSE (IF first THEN <<>> ELSE returned) \o k.r
        /\ released' = IF k.panic # NoPanic THEN released
                        ELSE IF first THEN <<>> ELSE released
        /\ UNCHANGED <<now, iter, front, back, cleared, capacity>>

Clear ==
    /\ ~iter.live
    /\ hb' = clear(hb)
    /\ op' = "clear"
    /\ r' = None
    /\ panic' = NoPanic
    /\ written' = <<>>
    /\ cleared' = TRUE
    /\ fresh' = new(hb.max_size, now)
    /\ fresh_res' = [r |-> None, panic |-> NoPanic]
    /\ epoch_write' = None
    /\ tok' = clear(tok)
    /\ released' = released \o tok.buffer
    /\ UNCHANGED <<now, iter, front, back, last_write, capacity, issued, returned>>

\* all() hands out an iterator that borrows the buffer; until it is dropped
\* the only calls are the iterator's own.
All ==
    /\ ~iter.live
    /\ iter' = all(hb).it
    /\ op' = "all"
    /\ r' = None
    /\ panic' = all(hb).panic
    /\ front' = <<>>
    /\ back' = <<>>
    /\ UNCHANGED <<hb, now, written, last_write, cleared, fresh, fresh_res,
                   capacity, epoch_write, own>>

IterNext ==
    /\ iter.live
    /\ iter' = next(iter).it
    /\ op' = "next"
    /\ r' = next(iter).r
    /\ panic' = NoPanic
    /\ front' = front \o next(iter).r
    /\ UNCHANGED <<hb, now, back, written, last_write, cleared, fresh, fresh_res,
                   capacity, epoch_write, own>>

IterNextBack ==
    /\ iter.live
    /\ iter' = next_back(iter).it
    /\ op' = "next_back"
    /\ r' = next_back(iter).r
    /\ panic' = NoPanic
    /\ back' = back \o next_back(iter).r
    /\ UNCHANGED <<hb, now, front, written, last_write, cleared, fresh, fresh_res,
                   capacity, epoch_write, own>>

IterDrop ==
    /\ iter.live
    /\ iter' = NoIter
    /\ op' = "drop"
    /\ r' = None
    /\ panic' = NoPanic
    /\ front' = <<>>
    /\ back' = <<>>
    /\ UNCHANGED <<hb, now, written, last_write, cleared, fresh, fresh_res,
                   capacity, epoch_write, own>>

Next ==
    \/ Tick
    \/ IsEmpty
    \/ IsFull
    \/ MaxLen
    \/ LenOf
    \/ MostRecent
    \/ DurationSinceLastMeasurement
    \/ AllUnsorted
    \/ Fmt
    \/ \E val \in Values : Write(val)
    \/ Clear
    \/ All
    \/ IterNext
    \/ IterNextBack
    \/ IterDrop

Spec == Init /\ [][Next]_vars

\* ------------------------------------------------------ shared definitions
\* The number of writes since new() or the last clear().
N == Len(written)
\* The values a buffer of this capacity retains, oldest first.
Retained == LastK(written, Min(N, hb.max_size))

\* ------------------------------------------------------------------ claims
\* C1: displacement is FIFO.  Numbering the writes since new() or the last
\* clear() from 1, on a buffer of capacity c >= 1 write number n returns
\* nothing for n <= c and for n > c returns the value given to write n - c.
C1_FifoDisplacement ==
    (hb.max_size >= 1 /\ op = "write") =>
        /\ panic = NoPanic
        /\ r = IF N <= hb.max_size THEN None ELSE Some(written[N - hb.max_size])

C1_Witness ==
    /\ op = "write"
    /\ ~cleared
    /\ hb.max_size >= 2
    /\ N >= hb.max_size + 2
    /\ r = Some(written[N - hb.max_size])
    /\ written[N - hb.max_size] # written[N - hb.max_size - 1]

\* C2: after N writes since new() or the last clear() on a buffer of capacity
\* c >= 1, all() yields exactly the last min(N, c) values written, oldest
\* first; fmt, which runs all() to its end, lists exactly those.
C2_AllIsChronological ==
    hb.max_size >= 1 =>
        /\ all(hb).panic = NoPanic
        /\ collect(all(hb).it) = Retained
        /\ Len(collect(all(hb).it)) = Min(N, hb.max_size)
        /\ (op = "fmt" => r = Retained /\ panic = NoPanic)

C2_Witness ==
    /\ op = "fmt"
    /\ N > hb.max_size
    /\ hb.write_index # 0
    /\ r = Retained
    /\ r # all_unsorted(hb)

\* C3: on a buffer of capacity c >= 1, most_recent() returns the value of the
\* latest write since new() or the last clear(), also when write_index has
\* wrapped to 0, and returns nothing exactly when the buffer is empty.
C3_MostRecentIsLatestWrite ==
    hb.max_size >= 1 =>
        /\ most_recent(hb).panic = NoPanic
        /\ most_recent(hb).r = IF N >= 1 THEN Some(written[N]) ELSE None
        /\ (most_recent(hb).r = None <=> is_empty(hb))
        /\ (op = "most_recent" =>
                r = (IF N >= 1 THEN Some(written[N]) ELSE None) /\ panic = NoPanic)

C3_Witness ==
    /\ op = "most_recent"
    /\ cleared
    /\ N > hb.max_size
    /\ hb.write_index = 0
    /\ r = Some(written[N])
    /\ r # Some(hb.buffer[1])

\* C4: after N writes since new() or the last clear() on a buffer of capacity
\* c >= 1, len() = min(N, c) and is_full() holds iff N >= c, so is_full()
\* becomes true at the c-th write and not before, with len() = max_len();
\* each of the first c writes returns nothing.
C4_LenAndFull ==
    hb.max_size >= 1 =>
        /\ len(hb) = Min(N, hb.max_size)
        /\ (is_full(hb) <=> N >= hb.max_size)
        /\ (is_full(hb) => len(hb) = max_len(hb))
        /\ (op = "write" /\ N <= hb.max_size => r = None)
        /\ (op = "len" => r = Min(N, hb.max_size))
        /\ (op = "is_full" => r = (N >= hb.max_size))

C4_Witness ==
    /\ op = "write"
    /\ hb.max_size >= 2
    /\ N = hb.max_size
    /\ is_full(hb)
    /\ len(hb) = max_len(hb)
    /\ r = None

\* C5: clear() leaves len() = 0, is_empty() true and write_index 0, and from
\* then on the buffer cannot be told from one made by new() with the same
\* capacity at the clear and given the same writes: write returns the same,
\* and len, is_full, most_recent, all and all_unsorted give the same.
C5_ClearIsFresh ==
    /\ (op = "clear" => len(hb) = 0 /\ is_empty(hb) /\ hb.write_index = 0)
    /\ cleared =>
        /\ len(hb) = len(fresh)
        /\ is_full(hb) = is_full(fresh)
        /\ is_empty(hb) = is_empty(fresh)
        /\ most_recent(hb) = most_recent(fresh)
        /\ all(hb) = all(fresh)
        /\ collect(all(hb).it) = collect(all(fresh).it)
        /\ all_unsorted(hb) = all_unsorted(fresh)
        /\ (op = "write" => r = fresh_res.r /\ panic = fresh_res.panic)

C5_Witness ==
    /\ cleared
    /\ op = "write"
    /\ hb.max_size >= 2
    /\ N > hb.max_size
    /\ hb.write_index # 0
    /\ r # None
    /\ r = fresh_res.r

\* C6: the iterator of all() is double-ended consistent: run from the back
\* it yields the forward sequence reversed; under any interleaving of steps
\* from the front and from the back, what the front has yielded, what is
\* left, and the reverse of what the back has yielded make up the
\* chronological sequence, each element once; it is exhausted after exactly
\* len() steps, and only then does a step yield nothing.
C6_DoubleEnded ==
    /\ collect_back(all(hb).it) = Reverse(collect(all(hb).it))
    /\ iter.live =>
        /\ front \o iter.a \o iter.b \o Reverse(back) = Retained
        /\ (Len(front) + Len(back) = len(hb) <=> (iter.a = <<>> /\ iter.b = <<>>))
        /\ ((iter.a = <<>> /\ iter.b = <<>>) =>
                /\ front \o Reverse(back) = Retained
                /\ next(iter).r = None
                /\ next_back(iter).r = None)
        /\ (op \in {"next", "next_back"} /\ r = None =>
                Len(front) + Len(back) = len(hb))

C6_Witness ==
    /\ iter.live
    /\ op = "next_back"
    /\ iter.a = <<>>
    /\ iter.b = <<>>
    /\ hb.write_index > 0
    /\ Len(back) > hb.write_index
    /\ front # <<>>
    /\ front \o Reverse(back) = Retained

\* C7: duration_since_last_measurement() returns nothing iff the buffer is
\* empty (no write since new() or the last clear()), and otherwise the clock
\* reading minus last_data_at, which is the clock reading of the latest write.
C7_DurationSinceLastWrite ==
    LET d == duration_since_last_measurement(hb, now)
    IN  /\ (d = None <=> is_empty(hb))
        /\ (is_empty(hb) <=> N = 0)
        /\ (~is_empty(hb) =>
                /\ last_write # None
                /\ hb.last_data_at = last_write[1]
                /\ d = Some(now - last_write[1]))
        /\ (op = "duration_since_last_measurement" =>
                (r = None <=> is_empty(hb)))

C7_Witness ==
    /\ op = "duration_since_last_measurement"
    /\ cleared
    /\ last_write = Some(1)
    /\ now = 2
    /\ r = Some(1)

\* C8: clear() changes only write_index (to 0) and buffer (to empty):
\* last_data_at and max_size stay as they are; last_data_at changes only in
\* write, and every write that returns, on a full buffer or not, sets it to
\* the clock reading.
C8_ClearFrame ==
    [][ /\ (op' = "clear" /\ now' = now =>
                /\ hb'.last_data_at = hb.last_data_at
                /\ hb'.max_size = hb.max_size
                /\ hb'.write_index = 0
                /\ hb'.buffer = <<>>)
        /\ (hb'.last_data_at # hb.last_data_at => op' = "write" /\ now' = now)
        /\ (hb'.max_size = hb.max_size)
        /\ (Len(written') > Len(written) => hb'.last_data_at = now)
      ]_vars

C8_Witness ==
    /\ op = "clear"
    /\ is_empty(hb)
    /\ hb.write_index = 0
    /\ hb.last_data_at >= 1
    /\ last_write = Some(hb.last_data_at)

\* C9: for capacity >= 1, every state reachable by new, write and clear has
\* 0 <= buffer.len() <= max_size and 0 <= write_index < max_size.
C9_IndexInRange ==
    hb.max_size >= 1 =>
        /\ 0 <= Len(hb.buffer)
        /\ Len(hb.buffer) <= hb.max_size
        /\ 0 <= hb.write_index
        /\ hb.write_index < hb.max_size

C9_Witness ==
    /\ op = "write"
    /\ hb.max_size >= 2
    /\ N > hb.max_size
    /\ Len(hb.buffer) = hb.max_size
    /\ hb.write_index = hb.max_size - 1

\* C10: for capacity >= 1 no call panics: write on a full buffer indexes an
\* occupied slot, most_recent on a non-empty buffer with write_index > 0
\* indexes an occupied slot, all() slices within bounds, and the modulo in
\* write has a non-zero divisor.
C10_NoPanic ==
    hb.max_size >= 1 =>
        /\ panic = NoPanic
        /\ (is_full(hb) => hb.write_index < Len(hb.buffer))
        /\ (~is_empty(hb) /\ hb.write_index > 0 => hb.write_index - 1 < Len(hb.buffer))
        /\ hb.write_index <= Len(hb.buffer)
        /\ hb.max_size # 0
        /\ \A val \in Values : write(hb, val, now).panic = NoPanic
        /\ most_recent(hb).panic = NoPanic
        /\ all(hb).panic = NoPanic
        /\ fmt(hb).panic = NoPanic

C10_Witness ==
    /\ op = "write"
    /\ panic = NoPanic
    /\ hb.max_size >= 2
    /\ r # None
    /\ hb.write_index = 0

\* C11: ownership is conserved.  With every written value a distinct token,
\* each token of the epoch is in exactly one place: stored in one slot of the
\* buffer, handed back by exactly one write, or dropped by a clear; the token
\* a write hands back is no longer stored, and it is the token of the value
\* the write on the buffer of values returned.
Range(s) == {s[i] : i \in 1..Len(s)}

C11_OwnershipConserved ==
    LET places == tok.buffer \o returned \o released
    IN  /\ Len(places) = issued
        /\ Range(places) = 1..issued
        /\ Len(tok.buffer) = Len(hb.buffer)
        /\ (N > 0 => \A i \in 1..Len(hb.buffer) : hb.buffer[i] = written[tok.buffer[i]])
        /\ (op = "write" /\ r # None =>
                /\ returned # <<>>
                /\ returned[Len(returned)] \notin Range(tok.buffer)
                /\ r = Some(written[returned[Len(returned)]]))

C11_Witness ==
    /\ op = "clear"
    /\ capacity >= 2
    /\ Len(returned) >= 2
    /\ Len(released) = capacity
    /\ issued = Len(returned) + Len(released)
    /\ tok.buffer = <<>>

\* C12: the calls that take &self (is_empty, is_full, max_len, len,
\* most_recent, duration_since_last_measurement, all_unsorted, all, fmt and
\* the steps of the iterator) leave max_size, buffer, write_index and
\* last_data_at as they are, so a second all() yields what the first did;
\* max_len() is the max_size given to new() after any writes and clears.
ReadOps ==
    {"is_empty", "is_full", "max_len", "len", "most_recent",
     "duration_since_last_measurement", "all_unsorted", "all", "fmt",
     "next", "next_back", "drop"}

C12_ReadsChangeNothing ==
    [][ /\ (op' \in ReadOps /\ now' = now => hb' = hb)
        /\ max_len(hb') = capacity'
        /\ capacity' = capacity
        /\ (op' = "max_len" /\ now' = now => r' = capacity)
        /\ (op' = "all" /\ now' = now =>
                /\ iter' = all(hb).it
                /\ collect(all(hb').it) = collect(iter'))
        /\ (op' = "fmt" /\ now' = now => fmt(hb').r = r')
      ]_vars

C12_Witness ==
    /\ op = "max_len"
    /\ cleared
    /\ N >= 1
    /\ r = capacity
    /\ r # len(hb)

\* C13: for capacity >= 1, while the buffer is not full write_index equals
\* buffer.len(), so buffer[write_index..] followed by buffer[..write_index]
\* is the buffer itself; right after the write that fills the buffer
\* write_index is 0.
C13_GrowingCursorIsLength ==
    hb.max_size >= 1 =>
        /\ (~is_full(hb) =>
                /\ hb.write_index = Len(hb.buffer)
                /\ SubSeq(hb.buffer, hb.write_index + 1, Len(hb.buffer))
                       \o SubSeq(hb.buffer, 1, hb.write_index) = hb.buffer)
        /\ (op = "write" /\ N = hb.max_size => hb.write_index = 0)

C13_Witness ==
    /\ op = "write"
    /\ cleared
    /\ hb.max_size >= 2
    /\ N = hb.max_size
    /\ is_full(hb)
    /\ hb.write_index = 0

\* C14: for capacity >= 1 every write, appending or overwriting, moves
\* write_index to (write_index + 1) mod max_size, so write_index is the
\* number of writes since new() or the last clear(), mod max_size.
C14_CursorAdvancesModulo ==
    [][ /\ (Len(written') = Len(written) + 1 =>
                hb'.write_index = (hb.write_index + 1) % hb.max_size)
        /\ (hb'.max_size >= 1 =>
                hb'.write_index = Len(written') % hb'.max_size)
      ]_vars

C14_Witness ==
    /\ op = "write"
    /\ r # None
    /\ N > hb.max_size
    /\ hb.write_index > 0
    /\ hb.write_index = N % hb.max_size

\* C15: a write changes at most one slot.  On a full buffer it replaces the
\* slot at the write_index of before the call, leaves the other slots and the
\* length alone and returns the slot's previous occupant; on a buffer that is
\* not full it appends the value at slot buffer.len(), the length grows by
\* one, the existing slots stay and nothing is returned.
C15_WriteTouchesOneSlot ==
    [][ Len(written') = Len(written) + 1 =>
            LET val == written'[Len(written')]
            IN  IF Len(hb.buffer) = hb.max_size
                THEN /\ hb'.buffer = [hb.buffer EXCEPT ![hb.write_index + 1] = val]
                     /\ Len(hb'.buffer) = Len(hb.buffer)
                     /\ r' = Some(hb.buffer[hb.write_index + 1])
                ELSE /\ hb'.buffer = Append(hb.buffer, val)
                     /\ Len(hb'.buffer) = Len(hb.buffer) + 1
                     /\ r' = None
      ]_vars

C15_Witness ==
    /\ op = "write"
    /\ r # None
    /\ hb.max_size = 3
    /\ hb.write_index = 2
    /\ hb.buffer[2] = written[N]
    /\ r # Some(written[N])
    /\ hb.buffer[1] # hb.buffer[2]

\* C16: all_unsorted() is the len() elements in slot order: numbering the
\* writes since new() or the last clear() from 0, slot i holds the value of
\* the latest write whose number is i mod max_size; all() is the rotation
\* all_unsorted()[write_index..] then all_unsorted()[..write_index], and the
\* two orders are the same whenever the buffer is not full or write_index is 0.
LatestWriteInto(i) ==
    CHOOSE k \in 0..(N - 1) :
        /\ k % hb.max_size = i
        /\ \A j \in 0..(N - 1) : j % hb.max_size = i => j <= k

C16_UnsortedIsSlotOrder ==
    LET au == all_unsorted(hb)
    IN  /\ Len(au) = len(hb)
        /\ (hb.max_size >= 1 =>
                /\ Len(au) = Min(N, hb.max_size)
                /\ \A i \in 0..(Len(au) - 1) : au[i + 1] = written[LatestWriteInto(i) + 1])
        /\ collect(all(hb).it) =
               SubSeq(au, hb.write_index + 1, Len(au)) \o SubSeq(au, 1, hb.write_index)
        /\ (~is_full(hb) \/ hb.write_index = 0 => collect(all(hb).it) = au)
        /\ (op = "all_unsorted" /\ hb.max_size >= 1 =>
                /\ Len(r) = len(hb)
                /\ \A i \in 0..(Len(r) - 1) : r[i + 1] = written[LatestWriteInto(i) + 1])

C16_Witness ==
    /\ op = "all_unsorted"
    /\ is_full(hb)
    /\ N > hb.max_size
    /\ hb.write_index # 0
    /\ r = hb.buffer
    /\ r # Retained

\* C17: for capacity >= 1 the buffer is growing or full and nothing else.
\* It becomes full only by a write made at buffer.len() = max_size - 1; once
\* full it stays full under every write and stops being full only by clear;
\* clear can be called in every state and leaves a growing buffer of length
\* 0; write and clear are never disabled (no write panics; the model stops
\* writing only at MaxWrites, and a live iterator holds the borrow).
C17_Lifecycle ==
    /\ [](hb.max_size >= 1 =>
            /\ \A val \in Values : write(hb, val, now).panic = NoPanic
            /\ (~iter.live => ENABLED Clear)
            /\ (~iter.live /\ N < MaxWrites => ENABLED (\E val \in Values : Write(val))))
    /\ [][ hb.max_size >= 1 =>
            /\ (~is_full(hb) /\ is_full(hb') =>
                    /\ Len(written') = Len(written) + 1
                    /\ op' = "write"
                    /\ Len(hb.buffer) = hb.max_size - 1)
            /\ (is_full(hb) /\ Len(written') = Len(written) + 1 => is_full(hb'))
            /\ (is_full(hb) /\ ~is_full(hb') => op' = "clear" /\ now' = now)
            /\ (op' = "clear" /\ now' = now => Len(hb'.buffer) = 0 /\ ~is_full(hb'))
            /\ Len(hb'.buffer) <= hb'.max_size
         ]_vars

C17_Witness ==
    /\ op = "clear"
    /\ capacity >= 2
    /\ returned = <<>>
    /\ Len(released) = capacity
    /\ len(hb) = 0
    /\ ~is_full(hb)

\* C18: a buffer made with max_size 0 reports is_empty() and is_full() both
\* true, with len() = 0 and max_len() = 0.
C18_ZeroCapacityFullAndEmpty ==
    capacity = 0 =>
        /\ is_empty(hb)
        /\ is_full(hb)
        /\ len(hb) = 0
        /\ max_len(hb) = 0
        /\ (op \in {"is_empty", "is_full"} => r = TRUE)
        /\ (op \in {"len", "max_len"} => r = 0)

C18_Witness ==
    /\ capacity = 0
    /\ op = "is_full"
    /\ r = TRUE
    /\ is_empty(hb)
    /\ last_write = None

\* C19: on a buffer of max_size 0 no write returns: the buffer reports full,
\* write indexes slot 0 of the empty vector and panics out of bounds before
\* the modulo by zero; buffer, write_index and last_data_at stay as they
\* were, and the value is neither stored nor handed back.
C19_ZeroCapacityWritePanics ==
    [][ hb.max_size = 0 =>
            /\ \A val \in Values :
                   write(hb, val, now) = [self |-> hb, r |-> None, panic |-> IndexOutOfBounds]
            /\ (op' = "write" /\ now' = now =>
                    /\ panic' = IndexOutOfBounds
                    /\ r' = None
                    /\ hb' = hb
                    /\ hb'.buffer = <<>>
                    /\ written' = written)
            /\ Len(written') = 0
      ]_vars

C19_Witness ==
    /\ capacity = 0
    /\ op = "write"
    /\ panic = IndexOutOfBounds
    /\ r = None
    /\ now >= 1
    /\ hb = new(0, 0)

\* C20: the timestamp clear leaves behind is never observed: whenever
\* duration_since_last_measurement() returns a duration, last_data_at is the
\* clock reading of a write made after the latest clear (and after new());
\* the write that makes the buffer non-empty is the one that sets it.
C20_StaleTimestampUnobservable ==
    [][ /\ (duration_since_last_measurement(hb', now') # None =>
                /\ epoch_write' # None
                /\ Len(written') >= 1
                /\ hb'.last_data_at = epoch_write'[1])
        /\ (op' = "duration_since_last_measurement" /\ now' = now /\ r' # None =>
                /\ epoch_write # None
                /\ r' = Some(now - epoch_write[1]))
        /\ (is_empty(hb) /\ ~is_empty(hb') =>
                /\ op' = "write"
                /\ hb'.last_data_at = now)
      ]_vars

C20_Witness ==
    /\ op = "duration_since_last_measurement"
    /\ cleared
    /\ N = 1
    /\ now = 2
    /\ hb.last_data_at = 2
    /\ r = Some(0)

====
